---- MODULE Spec2Model ----
(***************************************************************************)
(* ComfyLib: the sampler orchestrator (comfy/hazard/nodes.py), LatentImage *)
(* (comfy/latent_image.py) and VAEModel (comfy/vae.py).                    *)
(*                                                                         *)
(* The program is single threaded.  A caller invokes one operation at a    *)
(* time; pc names the operation whose call has just ended ("idle" between  *)
(* calls), args its arguments, ret how it ended, log the calls it made to  *)
(* external collaborators in order, heap the caller's mutable objects as   *)
(* the call left them, rng the state of torch's global generator.          *)
(* Tensors that only pass through the code are records of their shape,     *)
(* dtype and a term naming their contents; the tensors LatentImage.combine *)
(* computes with hold their cells.                                         *)
(***************************************************************************)
EXTENDS Integers, Sequences, FiniteSets, TLC

VARIABLES pc, args, ret, log, heap, locals, rng, prevNoise

vars == <<pc, args, ret, log, heap, locals, rng, prevNoise>>

(* ------------------------------ bounds -------------------------------- *)
MaxBatch == 3
MaxCond == 1
MaxSeed == 1
MaxDrawn == 2
MaxDim == 3
MaxFeather == 2
MaxTiles == 2

(* --------------------------- program constants ------------------------ *)
LatentChannels == 4
KernelSize == 6
Padding == 3
RgbChannels == 3

None == [none |-> TRUE]
NoCall == [op |-> "none"]

Max(a, b) == IF a > b THEN a ELSE b
Min(a, b) == IF a < b THEN a ELSE b

(* ======================= comfy/hazard/nodes.py ======================== *)

ControlNets == {"cnA", "cnB"}
DTypes == {"float32", "float16"}
Devices == {"cpu", "cuda"}

\* A conditioning entry is the list [embedding, aux dict]; the dict is a
\* function whose domain holds "control" when the entry refers to a control net.
Embedding(b, tag) == [batch |-> b, content |-> tag]
AuxDicts == {<<>>} \cup {[k \in {"control"} |-> c] : c \in ControlNets}
CondEntries(side) ==
    {<<Embedding(b, <<"emb", side>>), d>> : b \in 1..MaxBatch, d \in AuxDicts}
CondLists(side, n) ==
    UNION {[1..k -> CondEntries(side)] : k \in 0..n}

\* torch.manual_seed(seed): seeds the global generator and returns it.
ManualSeed(seed) == [seed |-> seed, drawn |-> 0]

\* torch.randn leaves the generator it drew from advanced.
Advance(g) == [g EXCEPT !.drawn = g.drawn + 1]

Zeros(shape, dtype, layout) ==
    [shape |-> shape, dtype |-> dtype, layout |-> layout, device |-> "cpu",
     content |-> <<"zeros">>]

\* The values torch.randn draws are fixed by the generator's state, the
\* shape, the dtype and the layout.
Randn(shape, dtype, layout, g) ==
    [shape |-> shape, dtype |-> dtype, layout |-> layout, device |-> "cpu",
     content |-> <<"randn", g, shape, dtype, layout>>]

TensorTo(t, device) == [t EXCEPT !.device = device]

\* Mutant: the noise is drawn from the global generator as the call found it.
NoiseGenerator_Unseeded(seed, g) == g

\* The generator the noise is drawn from: the one manual_seed returns.
NoiseGenerator(seed, g) == ManualSeed(seed)

\* nodes.py 14-17: the noise and the global generator after it.
MakeNoise(latent_image, seed, disable_noise, g) ==
    IF disable_noise
    THEN [noise |-> Zeros(latent_image.shape, latent_image.dtype, latent_image.layout),
          rng |-> g]
    ELSE LET gen == NoiseGenerator(seed, g)
         IN [noise |-> Randn(latent_image.shape, latent_image.dtype,
                             latent_image.layout, gen),
             rng |-> Advance(gen)]

\* torch.cat([t] * n, dim): dimension dim (1-based here) becomes n times as long.
CatShape(shape, dim, n) == [shape EXCEPT ![dim] = @ * n]

\* nodes.py 19-24: the mask handed to the sampler; None without a noise mask.
ExpandMask(latent, noise) ==
    IF "noise_mask" \in DOMAIN latent
    THEN LET m  == latent["noise_mask"]
             s0 == <<1, 1, noise.shape[3], noise.shape[4]>>
             s1 == CatShape(s0, 2, noise.shape[2])
             s2 == CatShape(s1, 1, noise.shape[1])
         IN [shape |-> s2, dtype |-> m.dtype, layout |-> m.layout,
             device |-> m.device,
             content |-> <<"round", <<"bilinear", m.content,
                                     noise.shape[3], noise.shape[4]>>>>]
    ELSE None

\* nodes.py 43-44 and 51-52: t = torch.cat([t] * noise.shape[0]) when shorter.
Replicate(t, B) ==
    IF t.batch < B
    THEN [batch |-> t.batch * B, content |-> <<"cat", t.content, B>>]
    ELSE t

\* nodes.py 48 and 56: [t] + p[1:]
CopyEntry(e, B) == <<Replicate(e[1], B)>> \o Tail(e)

CondCopy(conds, B) == [i \in DOMAIN conds |-> CopyEntry(conds[i], B)]

\* nodes.py 46-47: what a positive entry adds to control_nets.
PositiveControls(p) ==
    IF "control" \in DOMAIN p[2] THEN <<p[2]["control"]>> ELSE <<>>

\* nodes.py 54-55: what a negative entry n adds to control_nets; p is the
\* loop variable the positive loop left behind.
NegativeControls(n, p) ==
    IF "control" \in DOMAIN p[2] THEN <<p[2]["control"]>> ELSE <<>>

RECURSIVE PositiveLoop(_, _)
\* nodes.py 41-48: the control nets of positive[i..], in order.
PositiveLoop(positive, i) ==
    IF i > Len(positive) THEN <<>>
    ELSE PositiveControls(positive[i]) \o PositiveLoop(positive, i + 1)

RECURSIVE NegativeLoop(_, _, _)
\* nodes.py 49-56: the control nets the negative loop adds.
NegativeLoop(negative, p, i) ==
    IF i > Len(negative) THEN <<>>
    ELSE NegativeControls(negative[i], p) \o NegativeLoop(negative, p, i + 1)

\* x.get_control_models(): the compute models behind a control net.
ControlModels(c) == <<<<"model", c>>>>

RECURSIVE AllControlModels(_, _)
\* nodes.py 58-60
AllControlModels(control_nets, i) ==
    IF i > Len(control_nets) THEN <<>>
    ELSE ControlModels(control_nets[i]) \o AllControlModels(control_nets, i + 1)

\* nodes.py 67-68
CleanupCalls(control_nets) ==
    [i \in DOMAIN control_nets |-> [call |-> "cleanup", net |-> control_nets[i]]]

\* Mutant: the control nets are released before the sampler runs.
ExternalCalls_CleanupFirst(models, control_nets, sampleArgs, fail) ==
    LET load   == <<[call |-> "load_controlnet_gpu", models |-> models]>>
        sample == <<[call |-> "KSampler"], [call |-> "sample", args |-> sampleArgs]>>
    IN IF fail = "load" THEN load
       ELSE IF fail = "sample" THEN load \o CleanupCalls(control_nets) \o sample
       ELSE load \o CleanupCalls(control_nets) \o sample

\* nodes.py 61-68: the calls made once the control nets are collected: the
\* load, the KSampler constructor and its sample call, the cleanups; fail
\* names the collaborator call that raises ("none": none does).
ExternalCalls(models, control_nets, sampleArgs, fail) ==
    LET load   == <<[call |-> "load_controlnet_gpu", models |-> models]>>
        sample == <<[call |-> "KSampler"], [call |-> "sample", args |-> sampleArgs]>>
    IN IF fail = "load" THEN load
       ELSE IF fail = "sample" THEN load \o sample
       ELSE load \o sample \o CleanupCalls(control_nets)

\* Mutant: out = latent, without the copy.
CopyAndSet_NoCopy(latent, samples) ==
    LET out == [k \in DOMAIN latent |-> IF k = "samples" THEN samples ELSE latent[k]]
    IN [out |-> out, latent |-> out]

\* nodes.py 70-72: out = latent.copy(); out["samples"] = samples.  The pair
\* of the mapping returned (as the 1-tuple (out, )) and the caller's mapping
\* afterwards.
CopyAndSet(latent, samples) ==
    [out |-> [k \in DOMAIN latent |-> IF k = "samples" THEN samples ELSE latent[k]],
     latent |-> latent]

SamplerOutput(noise) ==
    [shape |-> noise.shape, dtype |-> noise.dtype, layout |-> noise.layout,
     device |-> noise.device, content |-> <<"sampled">>]

\* nodes.py 8-72.  a: the arguments; g: the global generator at the call;
\* fail: the collaborator call that raises; draws: whether the sampler draws
\* from the global generator.
common_ksampler(a, g, fail, draws) ==
    LET latent_image == a.latent["samples"]
        B        == latent_image.shape[1]
        mk       == MakeNoise(latent_image, a.seed, a.disable_noise, g)
        noise    == TensorTo(mk.noise, a.device)
        mask     == ExpandMask(a.latent, mk.noise)
        posNets  == PositiveLoop(a.positive, 1)
        unbound  == Len(a.positive) = 0 /\ Len(a.negative) > 0
        p        == IF Len(a.positive) = 0 THEN None
                    ELSE a.positive[Len(a.positive)]
        control_nets == IF unbound THEN posNets
                        ELSE posNets \o NegativeLoop(a.negative, p, 1)
        sampleArgs == [noise |-> noise,
                       positive |-> CondCopy(a.positive, B),
                       negative |-> CondCopy(a.negative, B),
                       latent_image |-> latent_image,
                       denoise_mask |-> mask]
        calls    == ExternalCalls(AllControlModels(control_nets, 1), control_nets,
                                  sampleArgs, fail)
        done     == CopyAndSet(a.latent, SamplerOutput(noise))
        sampled  == IF draws THEN Advance(mk.rng) ELSE mk.rng
    IN IF unbound
       THEN [ret |-> [status |-> "raised", error |-> "UnboundLocalError"],
             log |-> <<>>, latent |-> a.latent, rng |-> mk.rng,
             control_nets |-> control_nets]
       ELSE IF fail = "load"
       THEN [ret |-> [status |-> "raised", error |-> "load_controlnet_gpu"],
             log |-> calls, latent |-> a.latent, rng |-> mk.rng,
             control_nets |-> control_nets]
       ELSE IF fail = "sample"
       THEN [ret |-> [status |-> "raised", error |-> "sample"],
             log |-> calls, latent |-> a.latent, rng |-> sampled,
             control_nets |-> control_nets]
       ELSE [ret |-> [status |-> "returned", value |-> done.out],
             log |-> calls, latent |-> done.latent, rng |-> sampled,
             control_nets |-> control_nets]

\* A latent tensor of batch size B, and the mappings a caller passes.
LatentSamples(B, dtype) ==
    [shape |-> <<B, LatentChannels, MaxDim, MaxDim>>, dtype |-> dtype,
     layout |-> "strided", device |-> "cpu", content |-> <<"latent">>]

NoiseMask ==
    [shape |-> <<8 * MaxDim, 8 * MaxDim>>, dtype |-> "float32",
     layout |-> "strided", device |-> "cpu", content |-> <<"mask">>]

LatentMaps(B, dtype) ==
    LET s == LatentSamples(B, dtype)
    IN {[k \in {"samples"} |-> s],
        [k \in {"samples", "noise_mask"} |->
            IF k = "samples" THEN s ELSE NoiseMask],
        [k \in {"samples", "noise_mask", "batch_index"} |->
            IF k = "samples" THEN s
            ELSE IF k = "noise_mask" THEN NoiseMask
            ELSE [shape |-> <<B>>, dtype |-> "int64", layout |-> "strided",
                  device |-> "cpu", content |-> <<"batch_index">>]]}

\* Calls that exercise the conditioning lists and the collaborators' failures.
OrchestratorArgs ==
    {[device |-> "cuda", seed |-> 0, disable_noise |-> FALSE,
      positive |-> p, negative |-> n, latent |-> l] :
        p \in CondLists("positive", MaxCond),
        n \in CondLists("negative", MaxCond),
        l \in UNION {{m \in LatentMaps(B, "float32") :
                         "noise_mask" \in DOMAIN m => "batch_index" \in DOMAIN m} :
                     B \in 1..MaxBatch}}

\* Calls that exercise the noise: everything the noise might depend on varies.
NoiseArgs ==
    {[device |-> d, seed |-> s, disable_noise |-> z,
      positive |-> p, negative |-> p, latent |-> l] :
        d \in Devices, s \in 0..MaxSeed, z \in BOOLEAN,
        p \in {<<>>, <<<<Embedding(1, <<"emb", "both">>), <<>>>>>>},
        l \in UNION {{m \in LatentMaps(B, t) : "batch_index" \notin DOMAIN m} :
                        B \in 1..MaxBatch, t \in DTypes}}

SampleEvents == {i \in DOMAIN log : log[i].call = "sample"}
LoadEvents == {i \in DOMAIN log : log[i].call = "load_controlnet_gpu"}
CleanupEvents == {i \in DOMAIN log : log[i].call = "cleanup"}

\* The noise the finished call handed to sampler.sample.
HandedNoise == log[CHOOSE i \in SampleEvents : TRUE].args.noise
Handed == log[CHOOSE i \in SampleEvents : TRUE].args

\* History of the previous call that reached the sampler (not program state).
NoiseRecord ==
    [seed |-> args.seed, disable_noise |-> args.disable_noise,
     shape |-> args.latent["samples"].shape,
     dtype |-> args.latent["samples"].dtype,
     layout |-> args.latent["samples"].layout,
     noise |-> [HandedNoise EXCEPT !.device = "any"]]

Init ==
    /\ pc = "idle"
    /\ args = NoCall
    /\ ret = None
    /\ log = <<>>
    /\ heap = <<>>
    /\ locals = <<>>
    /\ rng = [seed |-> -1, drawn |-> 0]
    /\ prevNoise = None

\* A call of common_ksampler, start to end.
KSamplerCall(A, Fails, Draws) ==
    /\ pc = "idle"
    /\ \E a \in A, fail \in Fails, draws \in Draws :
         \E r \in {common_ksampler(a, rng, fail, draws)} :
            /\ r.rng.drawn <= MaxDrawn
            /\ pc' = "ksampler"
            /\ args' = a
            /\ ret' = r.ret
            /\ log' = r.log
            /\ heap' = [k \in {"latent"} |-> r.latent]
            /\ locals' = [control_nets |-> r.control_nets]
            /\ rng' = r.rng
    /\ UNCHANGED prevNoise

\* The caller takes the result; the call's frame is gone.
CallReturn(track) ==
    /\ pc # "idle"
    /\ pc' = "idle"
    /\ args' = NoCall
    /\ ret' = None
    /\ log' = <<>>
    /\ heap' = <<>>
    /\ locals' = <<>>
    /\ prevNoise' = IF track /\ pc = "ksampler" /\ SampleEvents # {}
                    THEN NoiseRecord ELSE prevNoise
    /\ UNCHANGED rng

NextSampler ==
    \/ KSamplerCall(OrchestratorArgs, {"none", "load", "sample"}, {FALSE})
    \/ CallReturn(FALSE)

SpecSampler == Init /\ [][NextSampler]_vars

NextNoise ==
    \/ KSamplerCall(NoiseArgs, {"none"}, BOOLEAN)
    \/ CallReturn(TRUE)

SpecNoise == Init /\ [][NextNoise]_vars

(* ======================= comfy/latent_image.py ======================== *)
(* A tensor of shape (batch, channel, h, w) is modelled by one of its      *)
(* (batch, channel) planes: every slice combine takes spans all of the     *)
(* first two dimensions, so the planes are treated alike.  A cell is a     *)
(* rational <<numerator, denominator>> in lowest terms; the rounding of    *)
(* floating point is not modelled.                                         *)

RECURSIVE Gcd(_, _)
Gcd(a, b) == IF b = 0 THEN a ELSE Gcd(b, a % b)
Abs(a) == IF a < 0 THEN -a ELSE a
Rat(n, d) == LET g == Gcd(Abs(n), d) IN <<n \div g, d \div g>>
RMul(a, b) == Rat(a[1] * b[1], a[2] * b[2])
RAdd(a, b) == Rat(a[1] * b[2] + b[1] * a[2], a[2] * b[2])
RSub(a, b) == Rat(a[1] * b[2] - b[1] * a[2], a[2] * b[2])
One == <<1, 1>>

\* The cell indices of an h x w plane.
Cells(h, w) == (1..h) \X (1..w)

\* Python's a:b on an axis of length n, as the 0-based start and the length.
PyIndex(i, n) == IF i < 0 THEN Max(i + n, 0) ELSE Min(i, n)
PySlice(lo, hi, n) ==
    LET a == PyIndex(lo, n)
        b == PyIndex(hi, n)
    IN [start |-> a, len |-> Max(b - a, 0)]
All(n) == [start |-> 0, len |-> n]

\* t[:, :, rs, cs]
View(t, rs, cs) ==
    [h |-> rs.len, w |-> cs.len,
     cells |-> [rc \in Cells(rs.len, cs.len) |->
                   t.cells[<<rs.start + rc[1], cs.start + rc[2]>>]]]

\* torch's broadcasting of one axis: equal lengths, or one of them 1.
CanBroadcast(m, n) == m = n \/ m = 1 \/ n = 1
BroadcastLen(m, n) == IF m = 1 THEN n ELSE m
BAt(t, r, c) == t.cells[<<IF t.h = 1 THEN 1 ELSE r, IF t.w = 1 THEN 1 ELSE c>>]
ShapesAgree(a, b) == CanBroadcast(a.h, b.h) /\ CanBroadcast(a.w, b.w)

\* a * b, a + b, a - b, elementwise with broadcasting (the shapes agree).
BroadcastCells(a, b) == Cells(BroadcastLen(a.h, b.h), BroadcastLen(a.w, b.w))
TMul(a, b) ==
    [h |-> BroadcastLen(a.h, b.h), w |-> BroadcastLen(a.w, b.w),
     cells |-> [rc \in BroadcastCells(a, b) |->
                   RMul(BAt(a, rc[1], rc[2]), BAt(b, rc[1], rc[2]))]]
TAdd(a, b) ==
    [h |-> BroadcastLen(a.h, b.h), w |-> BroadcastLen(a.w, b.w),
     cells |-> [rc \in BroadcastCells(a, b) |->
                   RAdd(BAt(a, rc[1], rc[2]), BAt(b, rc[1], rc[2]))]]
TSub(a, b) ==
    [h |-> BroadcastLen(a.h, b.h), w |-> BroadcastLen(a.w, b.w),
     cells |-> [rc \in BroadcastCells(a, b) |->
                   RSub(BAt(a, rc[1], rc[2]), BAt(b, rc[1], rc[2]))]]

\* Whether cell rc lies in rows rs and columns cs.
InRegion(rc, rs, cs) ==
    /\ rc[1] > rs.start /\ rc[1] <= rs.start + rs.len
    /\ rc[2] > cs.start /\ rc[2] <= cs.start + cs.len

\* dst[:, :, rs, cs] = src is allowed when src broadcasts to the region.
CanAssign(rs, cs, src) ==
    /\ src.h = rs.len \/ src.h = 1
    /\ src.w = cs.len \/ src.w = 1

Assign(dst, rs, cs, src) ==
    [dst EXCEPT !.cells =
        [rc \in Cells(dst.h, dst.w) |->
            IF InRegion(rc, rs, cs)
            THEN BAt(src, rc[1] - rs.start, rc[2] - cs.start)
            ELSE dst.cells[rc]]]

\* t[:, :, rs, cs] *= k
ScaleRegion(t, rs, cs, k) ==
    [t EXCEPT !.cells =
        [rc \in Cells(t.h, t.w) |->
            IF InRegion(rc, rs, cs) THEN RMul(t.cells[rc], k) ELSE t.cells[rc]]]

OnesLike(t) == [t EXCEPT !.cells = [rc \in Cells(t.h, t.w) |-> One]]

\* comfy.util._check_divisible_by_8: every value must be a multiple of 8 and
\* is returned divided by 8 (Python's floor division).
DivisibleBy8(vals) == \A i \in DOMAIN vals : vals[i] % 8 = 0
CheckDivisibleBy8(vals) == [i \in DOMAIN vals |-> vals[i] \div 8]

\* latent_image.py 47-49: (width, height) of the data.
Size(h, L) == <<h[L.data].w, h[L.data].h>>

\* latent_image.py 72: s = latent_to._data.clone()
CloneTensor(h, id, new) ==
    [heap |-> [k \in DOMAIN h \cup {new} |-> IF k = new THEN h[id] ELSE h[k]],
     ref |-> new]

\* Mutant: the block of latent_from is written at the top-left corner.
HardReplaceRegion_AtOrigin(x, y, width, height, s) ==
    [rs |-> PySlice(0, height, s.h), cs |-> PySlice(0, width, s.w)]

\* latent_image.py 76: the region s[:, :, y : y + height, x : x + width]
HardReplaceRegion(x, y, width, height, s) ==
    [rs |-> PySlice(y, y + height, s.h), cs |-> PySlice(x, x + width, s.w)]

\* latent_image.py 84-93: the feather mask, iteration t and on.
RECURSIVE FeatherLoop(_, _, _, _, _, _, _)
FeatherLoop(mask, t, feather, x, y, width, height) ==
    IF t >= feather THEN mask
    ELSE LET c  == Rat(t + 1, feather)
             m1 == IF y # 0
                   THEN ScaleRegion(mask, PySlice(t, 1 + t, mask.h), All(mask.w), c)
                   ELSE mask
             m2 == IF y + height < height
                   THEN ScaleRegion(m1, PySlice(height - 1 - t, height - t, m1.h),
                                    All(m1.w), c)
                   ELSE m1
             m3 == IF x # 0
                   THEN ScaleRegion(m2, All(m2.h), PySlice(t, 1 + t, m2.w), c)
                   ELSE m2
             m4 == IF x + width < width
                   THEN ScaleRegion(m3, All(m3.h),
                                    PySlice(width - 1 - t, width - t, m3.w), c)
                   ELSE m3
         IN FeatherLoop(m4, t + 1, feather, x, y, width, height)

\* latent_image.py 81: s_from is taken from latent_to._data.
FeatherSource(h, latent_to, latent_from) == h[latent_to.data]

\* LatentImage.__init__ (27-31): the object wraps the tensor it is given.
LatentImage(data, mask) == [data |-> data, noise_mask |-> mask, device |-> "cpu"]

Raised(error, h) ==
    [ret |-> [status |-> "raised", error |-> error], heap |-> h, mask |-> None]

\* latent_image.py 58-101.  h: the heap of tensors; latent_to, latent_from:
\* LatentImage objects; xp, yp, featherp: the offsets and feather as passed.
combine(h, latent_to, latent_from, xp, yp, featherp) ==
    IF ~DivisibleBy8(<<xp, yp, featherp>>) THEN Raised("AssertionError", h)
    ELSE IF Size(h, latent_to) # Size(h, latent_from) THEN Raised("AssertionError", h)
    ELSE
    LET v       == CheckDivisibleBy8(<<xp, yp, featherp>>)
        x       == v[1]
        y       == v[2]
        feather == v[3]
        cl      == CloneTensor(h, latent_to.data, "s")
        h1      == cl.heap
        s       == h1[cl.ref]
        width   == Size(h, latent_from)[1]
        height  == Size(h, latent_from)[2]
        from    == h1[latent_from.data]
        reg     == HardReplaceRegion(x, y, width, height, s)
        block   == View(from, PySlice(0, height - y, from.h),
                              PySlice(0, width - x, from.w))
        src     == FeatherSource(h1, latent_to, latent_from)
        s_from  == View(src, PySlice(0, height - y, src.h), PySlice(0, width - x, src.w))
        mask    == FeatherLoop(OnesLike(s_from), 0, feather, x, y, width, height)
        rev_mask == TSub(OnesLike(mask), mask)
        s_from2 == View(s_from, PySlice(0, height - y, s_from.h),
                                PySlice(0, width - x, s_from.w))
        target  == View(s, reg.rs, reg.cs)
        lhs     == TMul(s_from2, mask)
        rhs     == TMul(target, rev_mask)
        blend   == TAdd(lhs, rhs)
        Done(t, m) ==
            [ret |-> [status |-> "returned",
                      value |-> LatentImage(cl.ref, latent_to.noise_mask)],
             heap |-> [h1 EXCEPT ![cl.ref] = t], mask |-> m]
    IN IF feather = 0
       THEN IF CanAssign(reg.rs, reg.cs, block)
            THEN Done(Assign(s, reg.rs, reg.cs, block), None)
            ELSE Raised("RuntimeError", h)
       ELSE IF /\ ShapesAgree(s_from2, mask)
               /\ ShapesAgree(target, rev_mask)
               /\ ShapesAgree(lhs, rhs)
               /\ CanAssign(reg.rs, reg.cs, blend)
            THEN Done(Assign(s, reg.rs, reg.cs, blend), mask)
            ELSE Raised("RuntimeError", h)

\* The tensors and objects a caller passes to combine.
ToData(h, w) ==
    [h |-> h, w |-> w, cells |-> [rc \in Cells(h, w) |-> <<10 * rc[1] + rc[2], 1>>]]
FromData(h, w) ==
    [h |-> h, w |-> w,
     cells |-> [rc \in Cells(h, w) |-> <<100 + 10 * rc[1] + rc[2], 1>>]]
LatentSizes == (1..MaxDim) \X (1..MaxDim)
\* latent_from is as large as latent_to, or a single cell.
SizePairs == {p \in LatentSizes \X LatentSizes : p[2] = p[1] \/ p[2] = <<1, 1>>}
OffsetsPx == {8 * k : k \in -1..(2 * MaxDim + 1)} \cup {4}
FeathersPx == {8 * k : k \in 0..MaxFeather}

CombineArgs ==
    {[latent_to |-> LatentImage("to_data", m),
      latent_from |-> LatentImage("from_data", [content |-> <<"mask_from">>]),
      x |-> x, y |-> y, feather |-> f,
      heap |-> [k \in {"to_data", "from_data"} |->
                   IF k = "to_data" THEN ToData(sz[1][1], sz[1][2])
                   ELSE FromData(sz[2][1], sz[2][2])]] :
        m \in {None, [content |-> <<"mask_to">>]},
        x \in OffsetsPx, y \in OffsetsPx, f \in FeathersPx,
        sz \in SizePairs}

\* A call of LatentImage.combine, start to end.
CombineCall ==
    /\ pc = "idle"
    /\ \E a \in CombineArgs :
         \E r \in {combine(a.heap, a.latent_to, a.latent_from, a.x, a.y, a.feather)} :
            /\ pc' = "combine"
            /\ args' = a
            /\ ret' = r.ret
            /\ heap' = r.heap
            /\ locals' = [mask |-> r.mask]
    /\ log' = <<>>
    /\ UNCHANGED <<rng, prevNoise>>

NextLatent ==
    \/ CombineCall
    \/ CallReturn(FALSE)

SpecLatent == Init /\ [][NextLatent]_vars

(* ============================ comfy/vae.py ============================ *)

\* comfy.util.SDType.requires_cuda: the call goes ahead only with a GPU.
RequiresCuda(cuda) == cuda

\* comfy.util._check_divisible_by_64
DivisibleBy64(size) == size[1] % 64 = 0 /\ size[2] % 64 = 0

\* comfy.util._image_to_rgb_tensor: the tensor (1, H, W, 3) and the size (W, H).
ImageToRgbTensor(image) ==
    [t |-> [shape |-> <<1, image.size[2], image.size[1], RgbChannels>>,
            content |-> <<"rgb", image.content>>],
     size |-> image.size]

\* comfy.util._image_to_greyscale_tensor: the tensor (H, W) and the size (W, H).
ImageToGreyscaleTensor(image) ==
    [t |-> [shape |-> <<image.size[2], image.size[1]>>,
            content |-> <<"grey", image.content>>],
     size |-> image.size]

\* torch.nn.functional.conv2d, stride 1, no dilation: the length of an output axis.
ConvOut(n, k, pad) == n + 2 * pad - k + 1

\* vae.py 56-64: the shape of mask_erosion, from mask_t of shape (H, W):
\* the input (1 - mask_t.round())[None] is (1, H, W).
ErosionShape(maskShape) ==
    <<1, ConvOut(maskShape[1], KernelSize, Padding),
         ConvOut(maskShape[2], KernelSize, Padding)>>

\* vae.py 68: the operand mask_erosion[0][:, :] of the in-place multiply;
\* [:, :] keeps both axes whole.
ErosionOperand(erosionShape) ==
    <<All(erosionShape[2]).len, All(erosionShape[3]).len>>

\* img_t[:, :, :, i] *= m: m of shape (h, w) must broadcast to (1, H, W).
CanMultiplyInPlace(imgShape, m) ==
    /\ m[1] = imgShape[2] \/ m[1] = 1
    /\ m[2] = imgShape[3] \/ m[2] = 1

\* vae.py 48-72.  vaeOut: how the external encode call ends.
masked_encode(cuda, device, image, mask, vaeOut) ==
    LET img  == ImageToRgbTensor(image)
        msk  == ImageToGreyscaleTensor(mask)
        ero  == ErosionShape(msk.t.shape)
        opnd == ErosionOperand(ero)
        img_t == [img.t EXCEPT !.content = <<"masked", @, msk.t.content>>]
        call == <<[call |-> "vae.encode", arg |-> img_t, result |-> vaeOut]>>
        Fail(e, l, shp) == [ret |-> [status |-> "raised", error |-> e], log |-> l,
                            erosion |-> shp]
    IN IF ~RequiresCuda(cuda) THEN Fail("CudaRequired", <<>>, None)
       ELSE IF img.size # msk.size THEN Fail("AssertionError", <<>>, None)
       ELSE IF ~DivisibleBy64(img.size) THEN Fail("AssertionError", <<>>, None)
       ELSE IF ~CanMultiplyInPlace(img.t.shape, opnd) THEN Fail("RuntimeError", <<>>, ero)
       ELSE IF vaeOut = None THEN Fail("vae.encode", call, ero)
       ELSE [ret |-> [status |-> "returned",
                      value |-> [data |-> vaeOut, noise_mask |-> msk.t,
                                 device |-> device]],
             log |-> call, erosion |-> ero]

\* Mutant: only a batch larger than one is rejected.
BatchRejected_OnlyLarger(shape) == shape[1] > 1

\* vae.py 81: img.shape[0] != 1
BatchRejected(shape) == shape[1] # 1

\* vae.py 86: (np.clip(v, 0, 1) * 255).round().astype("uint8") of the value
\* half/2; numpy rounds halves to the even integer.
ToUint8(half) ==
    LET clipped == Max(0, Min(half, 2))
        twice   == clipped * 255
    IN IF twice % 2 = 0 THEN twice \div 2
       ELSE IF ((twice - 1) \div 2) % 2 = 0 THEN (twice - 1) \div 2
       ELSE (twice + 1) \div 2

\* vae.py 74-88.  vaeOut: how the external decode call ends (None: it raises).
decode(cuda, latent_image, vaeOut) ==
    LET call == <<[call |-> "vae.decode", arg |-> latent_image.data,
                   result |-> vaeOut]>>
    IN IF ~RequiresCuda(cuda)
       THEN [ret |-> [status |-> "raised", error |-> "CudaRequired"], log |-> <<>>]
       ELSE IF vaeOut = None
       THEN [ret |-> [status |-> "raised", error |-> "vae.decode"], log |-> call]
       ELSE IF BatchRejected(vaeOut.shape)
       THEN [ret |-> [status |-> "raised", error |-> "RuntimeError"], log |-> call]
       ELSE [ret |-> [status |-> "returned",
                      value |-> [size |-> <<vaeOut.shape[3], vaeOut.shape[2]>>,
                                 mode |-> "RGB",
                                 content |-> <<"uint8", ToUint8(vaeOut.half)>>]],
             log |-> call]

\* What the external VAE may hand back from decode: any batch size.
DecodeOutputs(latent) ==
    {[shape |-> <<b, 8 * latent.shape[3], 8 * latent.shape[4], RgbChannels>>,
      half |-> v] : b \in 0..MaxBatch, v \in -1..3} \cup {None}

DecodeArgs ==
    {[cuda |-> c, latent_image |-> [data |-> LatentSamples(B, "float32"),
                                    noise_mask |-> m, device |-> "cuda"]] :
        c \in BOOLEAN, B \in 1..MaxBatch, m \in {None, NoiseMask}}

\* A call of VAEModel.decode, start to end.
DecodeCall ==
    /\ pc = "idle"
    /\ \E a \in DecodeArgs :
         \E out \in DecodeOutputs(a.latent_image.data) :
            \E r \in {decode(a.cuda, a.latent_image, out)} :
               /\ pc' = "decode"
               /\ args' = a
               /\ ret' = r.ret
               /\ log' = r.log
    /\ heap' = <<>>
    /\ locals' = <<>>
    /\ UNCHANGED <<rng, prevNoise>>

PixelSizes ==
    {<<w, h>> : w, h \in {64 * k : k \in 1..MaxTiles} \cup {96}}

Picture(size, tag) == [size |-> size, content |-> tag]

MaskedEncodeArgs ==
    {[cuda |-> c, device |-> "cuda",
      image |-> Picture(si, <<"image">>), mask |-> Picture(sm, <<"mask">>)] :
        c \in BOOLEAN, si \in PixelSizes, sm \in PixelSizes}

EncodeOutputs(image) ==
    {[shape |-> <<1, LatentChannels, image.size[2] \div 8, image.size[1] \div 8>>,
      dtype |-> "float32", layout |-> "strided", device |-> "cuda",
      content |-> <<"encoded">>], None}

\* A call of VAEModel.masked_encode, start to end.
MaskedEncodeCall ==
    /\ pc = "idle"
    /\ \E a \in MaskedEncodeArgs :
         \E out \in EncodeOutputs(a.image) :
            \E r \in {masked_encode(a.cuda, a.device, a.image, a.mask, out)} :
               /\ pc' = "masked_encode"
               /\ args' = a
               /\ ret' = r.ret
               /\ log' = r.log
               /\ locals' = [mask_erosion |-> r.erosion]
    /\ heap' = <<>>
    /\ UNCHANGED <<rng, prevNoise>>

NextVae ==
    \/ DecodeCall
    \/ MaskedEncodeCall
    \/ CallReturn(FALSE)

SpecVae == Init /\ [][NextVae]_vars

(* ===================== claims: common_ksampler ======================== *)

KSamplerEnded == pc = "ksampler"
KSamplerReturned == pc = "ksampler" /\ ret.status = "returned"
SampleRaised == pc = "ksampler" /\ ret.status = "raised" /\ ret.error = "sample"
LatentBatch == args.latent["samples"].shape[1]

\* The control nets an entry list refers to through its own aux dicts.
RECURSIVE OwnControls(_, _)
OwnControls(conds, i) ==
    IF i > Len(conds) THEN <<>>
    ELSE (IF "control" \in DOMAIN conds[i][2] THEN <<conds[i][2]["control"]>> ELSE <<>>)
         \o OwnControls(conds, i + 1)

Occurrences(seq, c) == Cardinality({i \in DOMAIN seq : seq[i] = c})

\* C1: when sampler.sample raises, every collected control net has had
\* cleanup() called (after the sample call) before the failure reaches the caller.
C1_CleanupOnSampleFailure ==
    SampleRaised =>
        \A i \in DOMAIN locals.control_nets :
            \E j \in CleanupEvents :
                /\ log[j].net = locals.control_nets[i]
                /\ \A k \in SampleEvents : k < j

\* C2: every conditioning entry whose embedding batch b is below the noise
\* batch B reaches sampler.sample with batch exactly B; entries with b >= B
\* reach it with b unchanged.
C2_ConditioningBatchMatchesNoise ==
    (KSamplerEnded /\ SampleEvents # {}) =>
        /\ \A i \in DOMAIN args.positive :
              Handed.positive[i][1].batch =
                  IF args.positive[i][1].batch < LatentBatch
                  THEN LatentBatch ELSE args.positive[i][1].batch
        /\ \A i \in DOMAIN args.negative :
              Handed.negative[i][1].batch =
                  IF args.negative[i][1].batch < LatentBatch
                  THEN LatentBatch ELSE args.negative[i][1].batch

\* C3: the control-net list holds exactly the control objects of the positive
\* entries' own aux dicts and of the negative entries' own aux dicts, and the
\* call does not abort while collecting them, an empty positive list with a
\* non-empty negative list included.
C3_ControlNetsFromOwnEntries ==
    KSamplerEnded =>
        /\ ~(ret.status = "raised" /\ ret.error = "UnboundLocalError")
        /\ \A c \in ControlNets :
              Occurrences(locals.control_nets, c) =
                  Occurrences(OwnControls(args.positive, 1), c)
                  + Occurrences(OwnControls(args.negative, 1), c)

\* C4: the returned mapping has exactly the input mapping's keys, "samples" is
\* the sampler's output, every other key maps to the input's value, and the
\* caller's input mapping is as it was before the call.
C4_ReturnsCopyWithSamplesReplaced ==
    KSamplerReturned =>
        /\ DOMAIN ret.value = DOMAIN args.latent
        /\ ret.value["samples"].content = <<"sampled">>
        /\ \A k \in DOMAIN args.latent \ {"samples"} : ret.value[k] = args.latent[k]
        /\ heap["latent"] = args.latent
        /\ heap["latent"]["samples"].content = <<"latent">>
        /\ ("noise_mask" \in DOMAIN args.latent =>
               heap["latent"]["noise_mask"] = NoiseMask)

C4_Witness ==
    /\ KSamplerReturned
    /\ DOMAIN args.latent = {"samples", "noise_mask", "batch_index"}
    /\ Handed.denoise_mask # None

\* C9: in a call that returns normally load_controlnet_gpu is called exactly
\* once, with the control models of all collected control nets, before
\* sampler.sample; sampler.sample is called exactly once; every cleanup() call
\* comes after the sample call.
C9_LoadThenSampleThenCleanup ==
    KSamplerReturned =>
        /\ Cardinality(LoadEvents) = 1
        /\ Cardinality(SampleEvents) = 1
        /\ \A i \in LoadEvents :
              /\ \A j \in SampleEvents : i < j
              /\ Len(log[i].models) = Len(locals.control_nets)
              /\ \A n \in DOMAIN locals.control_nets :
                    log[i].models[n] = <<"model", locals.control_nets[n]>>
        /\ \A j \in CleanupEvents : \A k \in SampleEvents : k < j

C9_Witness ==
    /\ KSamplerReturned
    /\ Cardinality(CleanupEvents) >= 2
    /\ Len(locals.control_nets) = Cardinality(CleanupEvents)

SameNoiseKey ==
    /\ prevNoise # None
    /\ prevNoise.seed = args.seed
    /\ prevNoise.shape = args.latent["samples"].shape
    /\ prevNoise.disable_noise = args.disable_noise

\* C7 as stated: two calls that agree on (seed, latent shape, disable_noise)
\* hand bit-identical noise to the sampler.
C7_NoiseFromSeedShapeFlagOnly ==
    (KSamplerEnded /\ SampleEvents # {} /\ SameNoiseKey) =>
        HandedNoise.content = prevNoise.noise.content

\* C7 amended: two calls that agree on (seed, disable_noise) and on the shape,
\* dtype and layout of the latent samples hand bit-identical noise to the
\* sampler, whatever the conditioning, noise mask, device and calls in
\* between; with disable_noise the noise is all-zero of the latent's shape.
C7_NoiseFromSeedShapeDtypeFlag ==
    (KSamplerEnded /\ SampleEvents # {}) =>
        /\ (SameNoiseKey /\ prevNoise.dtype = args.latent["samples"].dtype
                         /\ prevNoise.layout = args.latent["samples"].layout) =>
               /\ HandedNoise.content = prevNoise.noise.content
               /\ HandedNoise.dtype = prevNoise.noise.dtype
               /\ HandedNoise.shape = prevNoise.noise.shape
        /\ args.disable_noise =>
               /\ HandedNoise.content = <<"zeros">>
               /\ HandedNoise.shape = args.latent["samples"].shape

C7_Witness ==
    /\ KSamplerEnded /\ SampleEvents # {} /\ SameNoiseKey
    /\ prevNoise.dtype = args.latent["samples"].dtype
    /\ ~args.disable_noise
    /\ args.device = "cuda"
    /\ "noise_mask" \in DOMAIN args.latent
    /\ Len(args.positive) > 0
    /\ rng.drawn = 2

(* ===================== claims: LatentImage.combine ==================== *)

CombineReturned == pc = "combine" /\ ret.status = "returned"
ToBefore == args.heap[args.latent_to.data]
FromBefore == args.heap[args.latent_from.data]
Result == heap[ret.value.data]
OffX == args.x \div 8
OffY == args.y \div 8
\* The cells of the result that lie in the overlap region starting at (x, y).
InOverlap(r, c) == r > OffY /\ r <= ToBefore.h /\ c > OffX /\ c <= ToBefore.w

\* C5: with feather > 0 every cell of the overlap region of the result is
\* from*mask + to*(1-mask), mask being the feather mask (1 in the interior,
\* rising from 1/feather to 1 across the band of each touched edge), and the
\* cells outside the overlap region are to's.
C5_FeatherBlendsFromOverTo ==
    (CombineReturned /\ args.feather > 0 /\ args.x >= 0 /\ args.y >= 0) =>
        \A r \in 1..Result.h, c \in 1..Result.w :
            Result.cells[<<r, c>>] =
                IF InOverlap(r, c)
                THEN LET m == BAt(locals.mask, r - OffY, c - OffX)
                     IN RAdd(RMul(FromBefore.cells[<<r - OffY, c - OffX>>], m),
                             RMul(ToBefore.cells[<<r, c>>], RSub(One, m)))
                ELSE ToBefore.cells[<<r, c>>]

DecodeEnded == pc = "decode"
DecodeCompleted == {i \in DOMAIN log : log[i].call = "vae.decode" /\ log[i].result # None}
DecodedBatch == log[CHOOSE i \in DecodeCompleted : TRUE].result.shape[1]

\* C8: decode ends in a RuntimeError, returning no image, whenever the
\* external decode call's output has a batch dimension other than 1; the
\* error comes only after that call has completed; an output of batch
\* dimension 1 is never rejected.
C8_DecodeRejectsBatchNotOne ==
    DecodeEnded =>
        /\ (DecodeCompleted # {} /\ DecodedBatch # 1) =>
               ret.status = "raised" /\ ret.error = "RuntimeError"
        /\ (ret.status = "raised" /\ ret.error = "RuntimeError") =>
               DecodeCompleted # {} /\ DecodedBatch # 1
        /\ (DecodeCompleted # {} /\ DecodedBatch = 1) => ret.status = "returned"

C8_Witness ==
    /\ DecodeEnded
    /\ DecodeCompleted # {} /\ DecodedBatch = 0
    /\ ret.status = "raised" /\ ret.error = "RuntimeError"

MaskedEncodePreconditions ==
    /\ pc = "masked_encode"
    /\ args.cuda
    /\ args.image.size = args.mask.size
    /\ args.image.size[1] % 64 = 0
    /\ args.image.size[2] % 64 = 0

\* C10: for an image and a mask of equal pixel size H x W, H and W multiples
\* of 64, the erosion mask has spatial size exactly H x W and the external
\* encode call is reached.
C10_ErosionMaskFitsImage ==
    MaskedEncodePreconditions =>
        /\ locals.mask_erosion = <<1, args.image.size[2], args.image.size[1]>>
        /\ \E i \in DOMAIN log : log[i].call = "vae.encode"

====
